---- MODULE Spec2Model ----
(***************************************************************************)
(* The account directory of tsunami-lambda-userdata: account records kept  *)
(* as JSON objects in an S3 bucket, with two derived indexes (by lowercased *)
(* username, by lowercased email).  Every S3 call of a handler is one      *)
(* step, so that handlers of different requests interleave at the calls.   *)
(*                                                                         *)
(* handleCreateAccount and the clear-and-rebuild handleRebuildIndexes are  *)
(* those of src/acctdeletegit.txt; handleLogin and the additive            *)
(* handleRebuildIndexes are those of src/index.mjs.                        *)
(***************************************************************************)
EXTENDS Naturals, Sequences, FiniteSets, TLC

VARIABLES store, pc, arg, lv, resp, faults, ops, s3fails, pre, prev, created

vars == <<store, pc, arg, lv, resp, faults, ops, s3fails, pre, prev, created>>

\* History kept for the statements below: the bucket when the running (or last)
\* request was entered, what the request before it did, and the ids that
\* handleCreateAccount has returned with SUCCESS_CREATE_ACCOUNT.
hist == <<pre, prev, created>>

(***************************************************************************)
(* Bounds.                                                                 *)
(***************************************************************************)
MaxAccounts == 2   \* identifiers uuidv4() can draw
MaxEvents == 4     \* requests entered plus S3 calls that fail, in one behaviour
MaxPage == 2       \* keys in one page of a listing

Procs == {"p1", "p2"}

(***************************************************************************)
(* Inputs.  Usernames and emails come in letter-case variants; uuidv4()    *)
(* draws from a pool of identifiers that sort on both sides of "by-".      *)
(***************************************************************************)
Usernames == {"al", "AL", "bo", "account"}
Emails == {"x@q", "X@q", "y@q"}
NewPasswords == {"pw"}
\* The (username, email) pairs requests sign up with.
SignUps == {<<"al", "x@q">>, <<"AL", "y@q">>, <<"bo", "X@q">>}
\* The usernames requests log in with.
LoginNames == {"al", "AL", "bo"}
Passwords == {"pw", "bad"}
IdPool == <<"0a", "c3", "e5", "f7">>
Ids == {IdPool[i] : i \in 1..MaxAccounts}

\* A comparison of names that keeps the letter case.
LowerKeepingCase(s) == s

\* String.prototype.toLowerCase on the inputs of the model.
Lower(s) ==
  CASE s = "AL" -> "al"
    [] s = "X@q" -> "x@q"
    [] OTHER -> s

\* bcrypt.hash / bcrypt.compare: an opaque digest that only its plaintext verifies.
Hash(pw) == <<"bcrypt", pw>>
Verify(pw, h) == h = Hash(pw)

(***************************************************************************)
(* Keys of the bucket, as <<folder, file>> under the prefix users/.        *)
(***************************************************************************)
AccountKey(id) == <<id, "account.json">>
ConfigKey(id) == <<id, "config.json">>
UsernameKey(u) == <<"by-username", Lower(u) \o ".json">>
EmailKey(e) == <<"by-email", Lower(e) \o ".json">>

AccountKeys == {AccountKey(id) : id \in Ids}
ConfigKeys == {ConfigKey(id) : id \in Ids}
UsernameKeys == {UsernameKey(u) : u \in Usernames}
EmailKeys == {EmailKey(e) : e \in Emails}
IndexKeys == UsernameKeys \cup EmailKeys
Keys == AccountKeys \cup ConfigKeys \cup IndexKeys

\* Objects of the bucket.  Absent is the answer NoSuchKey.
Absent == [t |-> "absent"]
AccountObj(u, pw, e) == [t |-> "account", username |-> u, password |-> Hash(pw), email |-> e]
ConfigObj == [t |-> "config", theme |-> "light", notifications |-> TRUE]
IndexObj(id) == [t |-> "index", userId |-> id]

Has(s, k) == s[k] # Absent

(***************************************************************************)
(* An S3 call either answers or throws an error other than NoSuchKey.      *)
(* ops counts the requests entered and faults the calls that failed;       *)
(* s3fails tells whether the bucket of the behaviour fails calls at all.   *)
(***************************************************************************)
Outcomes == IF s3fails /\ ops + faults < MaxEvents THEN {"ok", "error"} ELSE {"ok"}
Charge(o) == IF o = "error" THEN faults + 1 ELSE faults

\* The answer of GetObjectCommand on key k: the object, NoSuchKey, or an error.
GetResult(k, o) ==
  IF o = "error" THEN [t |-> "error"] ELSE store[k]

\* The bucket after GetObjectCommand on key k: a read leaves it as it was.
AfterGetReserving(s, k) ==
  IF s[k] = [t |-> "absent"] THEN [s EXCEPT ![k] = [t |-> "index", userId |-> "reserved"]] ELSE s

AfterGet(s, k) == s

\* PutObjectCommand that keeps an object already stored at the key.
PutResultKeepingFirst(s, k, v, o) ==
  IF o = "error" \/ s[k] # [t |-> "absent"] THEN s ELSE [s EXCEPT ![k] = v]

\* The bucket after PutObjectCommand of object v at key k, under outcome o.
PutResult(s, k, v, o) ==
  IF o = "error" THEN s ELSE [s EXCEPT ![k] = v]

(***************************************************************************)
(* jsonResponse and the log lines a handler returns in its body.          *)
(***************************************************************************)
jsonResponse(statusCode, status, message, data, logs) ==
  [statusCode |-> statusCode, status |-> status, message |-> message,
   data |-> data, logs |-> logs]

NoData == [none |-> TRUE]
NoResp == [statusCode |-> 0]

ErrMessage(r) ==
  IF r = Absent THEN "NoSuchKey"
  ELSE IF r.t = "error" THEN "S3 error"
  ELSE IF r.t = "unparsable" THEN "SyntaxError"
  ELSE "TypeError"

\* The locals of a handler at its entry.  logs holds the line of the router
\* and, for a request with a body, "Fields received" (the echo of the request's
\* own fields is left out of the line).
Locals(route) ==
  [userId |-> "", rec |-> Absent, chkU |-> "pending", chkE |-> "pending",
   pend |-> {}, failed |-> FALSE, fault |-> FALSE, wrote |-> {},
   prefix |-> "", token |-> 0, next |-> 0, queue |-> <<>>, del |-> {},
   rebuilt |-> 0, skipped |-> 0, visited |-> <<>>,
   logs |-> IF route \in {"/create-account", "/login"}
            THEN <<"Route determined: " \o route, "Fields received">>
            ELSE <<"Route determined: " \o route>>]

NoArg == [op |-> "none"]

UsedIds ==
  {id \in Ids :
     \/ Has(store, AccountKey(id))
     \/ Has(store, ConfigKey(id))
     \/ \E k \in IndexKeys : store[k] = IndexObj(id)
     \/ \E p \in Procs : pc[p] # "idle" /\ lv[p].userId = id}

Busy == {p \in Procs : pc[p] # "idle"}

\* What every handler entry does to the bookkeeping of the model.
Enter(p, a, label, route) ==
  /\ pc[p] = "idle"
  /\ ops + faults < MaxEvents
  /\ ops' = ops + 1
  /\ pc' = [pc EXCEPT ![p] = label]
  /\ arg' = [arg EXCEPT ![p] = a]
  /\ lv' = [lv EXCEPT ![p] = Locals(route)]
  /\ resp' = [resp EXCEPT ![p] = NoResp]
  /\ pre' = store
  /\ prev' = [arg |-> arg[p], resp |-> resp[p], fault |-> lv[p].fault, wrote |-> lv[p].wrote]
  /\ UNCHANGED <<store, faults, s3fails, created>>

\* A handler returns r.
Return(p, l, r) ==
  /\ pc' = [pc EXCEPT ![p] = "idle"]
  /\ lv' = [lv EXCEPT ![p] = l]
  /\ resp' = [resp EXCEPT ![p] = r]

(***************************************************************************)
(* handleCreateAccount                                                     *)
(***************************************************************************)
CreateAccount(p, u, e, pw) ==
  /\ Cardinality(Ids \ UsedIds) > Cardinality({q \in Busy : arg[q].op = "create"})
  /\ Enter(p, [username |-> u, password |-> pw, email |-> e, op |-> "create"],
           "c_check", "/create-account")

\* A duplicate check that names the email first.
DuplicateFieldEmailFirst(chkU, chkE) ==
  IF chkE = "fulfilled" THEN "email"
  ELSE IF chkU = "fulfilled" THEN "username"
  ELSE "none"

\* duplicateField after Promise.allSettled of the two index reads.
DuplicateField(chkU, chkE) ==
  IF chkU = "fulfilled" THEN "username"
  ELSE IF chkE = "fulfilled" THEN "email"
  ELSE "none"

\* A lookup that always settles as NoSuchKey.
CheckStatusAlwaysAbsent(r) == "NoSuchKey"

\* A lookup whose errors all count as NoSuchKey.
CheckStatusErrorAsAbsent(r) ==
  IF r.t \in {"error", "absent"} THEN "NoSuchKey" ELSE "fulfilled"

\* How a lookup of the duplicate check settled: rejected with an error other
\* than NoSuchKey, rejected with NoSuchKey, or fulfilled.
CheckStatus(r) ==
  IF r = [t |-> "error"] THEN "error"
  ELSE IF r = Absent THEN "NoSuchKey"
  ELSE "fulfilled"

\* One of the two index reads of the duplicate check settles; when both have,
\* the handler rejects, or draws the id and issues the four writes.
CreateCheck(p, f) ==
  /\ pc[p] = "c_check"
  /\ f \in {"username", "email"}
  /\ (IF f = "username" THEN lv[p].chkU ELSE lv[p].chkE) = "pending"
  /\ \E o \in Outcomes :
       LET k == IF f = "username" THEN UsernameKey(arg[p].username)
                ELSE EmailKey(arg[p].email)
           st == CheckStatus(GetResult(k, o))
           cu == IF f = "username" THEN st ELSE lv[p].chkU
           ce == IF f = "email" THEN st ELSE lv[p].chkE
           l1 == [lv[p] EXCEPT !.chkU = cu, !.chkE = ce,
                               !.fault = @ \/ o = "error"]
           dup == DuplicateField(cu, ce)
       IN /\ faults' = Charge(o)
          /\ store' = AfterGet(store, k)
          /\ IF cu = "pending" \/ ce = "pending"
             THEN /\ lv' = [lv EXCEPT ![p] = l1]
                  /\ UNCHANGED <<pc, resp>>
             ELSE IF cu = "error" \/ ce = "error"
             THEN LET l2 == [l1 EXCEPT !.logs = Append(@, "S3 error during index check")]
                  IN Return(p, l2, jsonResponse(500, "ERR_S3", "S3 error", NoData, l2.logs))
             ELSE IF dup # "none"
             THEN LET l2 == [l1 EXCEPT !.logs = Append(@, "Duplicate " \o dup)]
                  IN Return(p, l2, jsonResponse(409, "ERR_DUPLICATE_FIELD", "Duplicate " \o dup,
                                                [duplicateField |-> dup], l2.logs))
             ELSE \E id \in Ids \ UsedIds :
                    /\ lv' = [lv EXCEPT ![p] =
                                [l1 EXCEPT !.userId = id,
                                           !.pend = {AccountKey(id), ConfigKey(id),
                                                     UsernameKey(arg[p].username),
                                                     EmailKey(arg[p].email)}]]
                    /\ pc' = [pc EXCEPT ![p] = "c_write"]
                    /\ UNCHANGED resp
  /\ UNCHANGED <<arg, ops, s3fails, hist>>

\* A catch block that deletes what the puts of the call wrote.
AfterCatchRollingBack(s, l) ==
  IF l.pend = {} /\ l.failed
  THEN [k \in DOMAIN s |-> IF k \in l.wrote THEN [t |-> "absent"] ELSE s[k]]
  ELSE s

\* The bucket once a put of Promise.all has settled, the locals being l: the
\* catch block of a failed Promise.all logs and answers, and touches no key.
AfterCatch(s, l) == s

\* The object handleCreateAccount puts at key k.
CreateBody(p, k) ==
  IF k = AccountKey(lv[p].userId)
  THEN AccountObj(arg[p].username, arg[p].password, arg[p].email)
  ELSE IF k = ConfigKey(lv[p].userId) THEN ConfigObj
  ELSE IndexObj(lv[p].userId)

\* One of the four writes of Promise.all settles; after the last one the
\* handler answers.
CreateWrite(p, k) ==
  /\ pc[p] = "c_write"
  /\ k \in lv[p].pend
  /\ \E o \in Outcomes :
       LET l1 == [lv[p] EXCEPT !.pend = @ \ {k},
                               !.failed = @ \/ o = "error",
                               !.fault = @ \/ o = "error",
                               !.wrote = IF o = "ok" THEN @ \cup {k} ELSE @]
       IN /\ faults' = Charge(o)
          /\ store' = AfterCatch(PutResult(store, k, CreateBody(p, k), o), l1)
          /\ IF l1.pend # {}
             THEN /\ lv' = [lv EXCEPT ![p] = l1]
                  /\ UNCHANGED <<pc, resp>>
             ELSE IF l1.failed
             THEN LET l2 == [l1 EXCEPT !.logs = Append(@, "S3 upload failed")]
                  IN Return(p, l2, jsonResponse(500, "ERR_S3_UPLOAD", "Failed to save account data",
                                                NoData, l2.logs))
             ELSE LET l2 == [l1 EXCEPT !.logs = Append(@, "Account, config, and indexes saved to S3")]
                  IN Return(p, l2, jsonResponse(200, "SUCCESS_CREATE_ACCOUNT", "Account created",
                                                [userId |-> l1.userId], l2.logs))
          /\ created' = IF l1.pend = {} /\ ~l1.failed THEN created \cup {l1.userId} ELSE created
  /\ UNCHANGED <<arg, ops, s3fails, pre, prev>>

(***************************************************************************)
(* handleCreateAccount of src/index.mjs: no duplicate check, two writes     *)
(***************************************************************************)
CreateAccountNoIndex(p, u, e, pw) ==
  /\ Cardinality(Ids \ UsedIds) > Cardinality({q \in Busy : arg[q].op = "create"})
  /\ Enter(p, [username |-> u, password |-> pw, email |-> e, op |-> "create"],
           "n_draw", "/create-account")

\* uuidv4(), bcrypt.hash and the two bodies: the two writes are issued.
CreateNoIndexDraw(p) ==
  /\ pc[p] = "n_draw"
  /\ \E id \in Ids \ UsedIds :
       lv' = [lv EXCEPT ![p] = [@ EXCEPT !.userId = id,
                                         !.pend = {AccountKey(id), ConfigKey(id)}]]
  /\ pc' = [pc EXCEPT ![p] = "n_write"]
  /\ UNCHANGED <<store, arg, resp, faults, ops, s3fails, hist>>

\* One of the two writes of Promise.all settles; after the last one the
\* handler answers.
CreateNoIndexWrite(p, k) ==
  /\ pc[p] = "n_write"
  /\ k \in lv[p].pend
  /\ \E o \in Outcomes :
       LET l1 == [lv[p] EXCEPT !.pend = @ \ {k},
                               !.failed = @ \/ o = "error",
                               !.fault = @ \/ o = "error",
                               !.wrote = IF o = "ok" THEN @ \cup {k} ELSE @]
       IN /\ faults' = Charge(o)
          /\ store' = PutResult(store, k, CreateBody(p, k), o)
          /\ IF l1.pend # {}
             THEN /\ lv' = [lv EXCEPT ![p] = l1]
                  /\ UNCHANGED <<pc, resp>>
             ELSE IF l1.failed
             THEN LET l2 == [l1 EXCEPT !.logs = Append(@, "S3 upload failed")]
                  IN Return(p, l2, jsonResponse(500, "ERR_S3_UPLOAD", "Failed to save account data",
                                                NoData, l2.logs))
             ELSE LET l2 == [l1 EXCEPT !.logs = Append(@, "Account and config saved to S3")]
                  IN Return(p, l2, jsonResponse(200, "SUCCESS_CREATE_ACCOUNT", "Account created",
                                                [userId |-> l1.userId], l2.logs))
          /\ created' = IF l1.pend = {} /\ ~l1.failed THEN created \cup {l1.userId} ELSE created
  /\ UNCHANGED <<arg, ops, s3fails, pre, prev>>

(***************************************************************************)
(* handleLogin                                                             *)
(***************************************************************************)
InvalidCredentials(logs) ==
  jsonResponse(401, "ERR_INVALID_CREDENTIALS", "Invalid username or password", NoData, logs)

Login(p, u, pw) ==
  Enter(p, [username |-> u, password |-> pw, op |-> "login"], "l_lookup", "/login")

\* The read of the by-username entry that finds the account id.
LoginLookup(p) ==
  /\ pc[p] = "l_lookup"
  /\ \E o \in Outcomes :
       LET r == GetResult(UsernameKey(arg[p].username), o)
           l1 == [lv[p] EXCEPT !.fault = @ \/ o = "error"]
       IN /\ faults' = Charge(o)
          /\ IF r.t = "index"
             THEN /\ lv' = [lv EXCEPT ![p] = [l1 EXCEPT !.userId = r.userId]]
                  /\ pc' = [pc EXCEPT ![p] = "l_acct"]
                  /\ UNCHANGED resp
             ELSE LET l2 == [l1 EXCEPT !.logs = Append(@, "Username not found: " \o ErrMessage(r))]
                  IN Return(p, l2, InvalidCredentials(l2.logs))
  /\ UNCHANGED <<store, arg, ops, s3fails, hist>>

\* A comparison of the username that ignores the letter case.
IsMatchIgnoringCase(rec, u, pw) == Lower(rec.username) = Lower(u) /\ Verify(pw, rec.password)

\* isMatch of handleLogin.
IsMatch(rec, u, pw) == rec.username = u /\ Verify(pw, rec.password)

\* The read of the account record and the comparison of the credential.
LoginAccount(p) ==
  /\ pc[p] = "l_acct"
  /\ \E o \in Outcomes :
       LET r == GetResult(AccountKey(lv[p].userId), o)
           l1 == [lv[p] EXCEPT !.fault = @ \/ o = "error"]
       IN /\ faults' = Charge(o)
          /\ IF r.t # "account"
             THEN LET l2 == [l1 EXCEPT !.logs = Append(@, "Account file error: " \o ErrMessage(r))]
                  IN Return(p, l2, InvalidCredentials(l2.logs))
             ELSE IF ~IsMatch(r, arg[p].username, arg[p].password)
             THEN LET l2 == [l1 EXCEPT !.logs = Append(@, "Password mismatch")]
                  IN Return(p, l2, InvalidCredentials(l2.logs))
             ELSE /\ lv' = [lv EXCEPT ![p] = [l1 EXCEPT !.rec = r]]
                  /\ pc' = [pc EXCEPT ![p] = "l_chkU"]
                  /\ UNCHANGED resp
  /\ UNCHANGED <<store, arg, ops, s3fails, hist>>

\* err.name === "NoSuchKey": the answer of a presence check that makes the
\* handler put the entry.
NeedsPutAlways(r) == TRUE

NeedsPut(r) == r = Absent

\* The presence check of the by-username entry: on NoSuchKey the put is issued.
LoginCheckUsername(p) ==
  /\ pc[p] = "l_chkU"
  /\ \E o \in Outcomes :
       LET r == GetResult(UsernameKey(arg[p].username), o)
           l1 == [lv[p] EXCEPT !.fault = @ \/ o = "error"]
       IN /\ faults' = Charge(o)
          /\ lv' = [lv EXCEPT ![p] =
                      IF NeedsPut(r)
                      THEN [l1 EXCEPT !.pend = @ \cup {UsernameKey(arg[p].username)},
                                      !.logs = Append(@, "Missing username index recreated")]
                      ELSE l1]
          /\ pc' = [pc EXCEPT ![p] = "l_chkE"]
  /\ UNCHANGED <<store, arg, resp, ops, s3fails, hist>>

\* What follows the puts of the self-heal: Promise.all throws if one failed.
LoginJoined(p, l) ==
  IF l.failed
  THEN LET l2 == [l EXCEPT !.logs = Append(@, "Account file error: S3 error")]
       IN Return(p, l2, InvalidCredentials(l2.logs))
  ELSE /\ lv' = [lv EXCEPT ![p] = l]
       /\ pc' = [pc EXCEPT ![p] = "l_cfg"]
       /\ UNCHANGED resp

\* The presence check of the by-email entry.
LoginCheckEmail(p) ==
  /\ pc[p] = "l_chkE"
  /\ \E o \in Outcomes :
       LET k == EmailKey(lv[p].rec.email)
           r == GetResult(k, o)
           l0 == [lv[p] EXCEPT !.fault = @ \/ o = "error", !.chkE = "done"]
           l1 == IF NeedsPut(r)
                 THEN [l0 EXCEPT !.pend = @ \cup {k},
                                 !.logs = Append(@, "Missing email index recreated")]
                 ELSE l0
       IN /\ faults' = Charge(o)
          /\ IF l1.pend # {}
             THEN /\ lv' = [lv EXCEPT ![p] = l1]
                  /\ pc' = [pc EXCEPT ![p] = "l_join"]
                  /\ UNCHANGED resp
             ELSE LoginJoined(p, l1)
  /\ UNCHANGED <<store, arg, ops, s3fails, hist>>

\* A put of the self-heal settles (the put of the by-username entry may do so
\* while the by-email entry is still being checked).
LoginPut(p, k) ==
  /\ pc[p] \in {"l_chkE", "l_join"}
  /\ k \in lv[p].pend
  /\ \E o \in Outcomes :
       LET l1 == [lv[p] EXCEPT !.pend = @ \ {k},
                               !.failed = @ \/ o = "error",
                               !.fault = @ \/ o = "error",
                               !.wrote = IF o = "ok" THEN @ \cup {k} ELSE @]
       IN /\ faults' = Charge(o)
          /\ store' = PutResult(store, k, IndexObj(lv[p].userId), o)
          /\ IF pc[p] = "l_join" /\ l1.pend = {}
             THEN LoginJoined(p, l1)
             ELSE /\ lv' = [lv EXCEPT ![p] = l1]
                  /\ UNCHANGED <<pc, resp>>
  /\ UNCHANGED <<arg, ops, s3fails, hist>>

\* jwt.sign({userId, username})
Token(id, u) == [userId |-> id, username |-> u]

\* The read of config.json (any failure yields the empty config) and the answer.
LoginConfig(p) ==
  /\ pc[p] = "l_cfg"
  /\ \E o \in Outcomes :
       LET r == GetResult(ConfigKey(lv[p].userId), o)
           l1 == [lv[p] EXCEPT !.fault = @ \/ o = "error"]
           l2 == IF r.t = "config" THEN l1
                 ELSE [l1 EXCEPT !.logs = Append(@, "Config load failed, returning empty config: "
                                                      \o ErrMessage(r))]
           cfg == IF r.t = "config" THEN r ELSE [t |-> "config"]
       IN /\ faults' = Charge(o)
          /\ Return(p, l2, jsonResponse(200, "SUCCESS_LOGIN", "Login successful",
                                        [token |-> Token(l1.userId, arg[p].username), config |-> cfg],
                                        l2.logs))
  /\ UNCHANGED <<store, arg, ops, s3fails, hist>>

(***************************************************************************)
(* ListObjectsV2Command: the keys of the bucket in the order S3 lists them *)
(* (by folder, then by file name), a page at a time.  The continuation     *)
(* token is the rank of the last key of the page; S3 chooses the page size.*)
(***************************************************************************)
FolderOrder == <<"0a", "by-email", "by-username", "c3", "e5", "f7">>
FileOrder == <<"AL.json", "X@q.json", "account.json", "al.json", "bo.json", "config.json",
               "x@q.json", "y@q.json">>

IndexOf(seq, x) == CHOOSE i \in 1..Len(seq) : seq[i] = x
Rank(k) == IndexOf(FolderOrder, k[1]) * 10 + IndexOf(FileOrder, k[2])

\* Prefix "users/" matches every key, "users/<folder>/" the keys of the folder.
InPrefix(k, prefix) == prefix = "users/" \/ prefix = "users/" \o k[1] \o "/"

RECURSIVE InOrder(_)
InOrder(S) ==
  IF S = {} THEN <<>>
  ELSE LET m == CHOOSE k \in S : \A j \in S : Rank(k) <= Rank(j)
       IN <<m>> \o InOrder(S \ {m})

\* A listing that resumes at the key of the token instead of after it.
ListResultFromToken(s, prefix, token, n) ==
  LET rest == {k \in Keys : Has(s, k) /\ InPrefix(k, prefix) /\ Rank(k) >= token}
      page == {k \in rest : Cardinality({j \in rest : Rank(j) < Rank(k)}) < n}
      trunc == Cardinality(rest) > n
  IN [Contents |-> InOrder(page), IsTruncated |-> trunc,
      NextContinuationToken |-> IF trunc THEN Rank(CHOOSE k \in page : \A j \in page : Rank(j) <= Rank(k))
                                ELSE 0]

\* A listing every page of which carries a continuation token.
ListResultAlwaysTruncated(s, prefix, token, n) ==
  LET rest == {k \in Keys : Has(s, k) /\ InPrefix(k, prefix) /\ Rank(k) > token}
      page == {k \in rest : Cardinality({j \in rest : Rank(j) < Rank(k)}) < n}
  IN [Contents |-> InOrder(page), IsTruncated |-> TRUE,
      NextContinuationToken |-> IF page # {} THEN Rank(CHOOSE k \in page : \A j \in page : Rank(j) <= Rank(k))
                                ELSE IF token = 0 THEN 1 ELSE token]

\* A listing whose token counts the keys already returned.
ListResultByOffset(s, prefix, token, n) ==
  LET all == {k \in Keys : Has(s, k) /\ InPrefix(k, prefix)}
      page == {k \in all : LET before == Cardinality({j \in all : Rank(j) < Rank(k)})
                           IN before >= token /\ before < token + n}
      trunc == Cardinality(all) > token + n
  IN [Contents |-> InOrder(page), IsTruncated |-> trunc,
      NextContinuationToken |-> IF trunc THEN token + n ELSE 0]

\* The page of at most n keys that follows token, IsTruncated, NextContinuationToken.
ListResult(s, prefix, token, n) ==
  LET rest == {k \in Keys : Has(s, k) /\ InPrefix(k, prefix) /\ Rank(k) > token}
      page == {k \in rest : Cardinality({j \in rest : Rank(j) < Rank(k)}) < n}
      trunc == Cardinality(rest) > n
  IN [Contents |-> InOrder(page), IsTruncated |-> trunc,
      NextContinuationToken |-> IF trunc THEN Rank(CHOOSE k \in page : \A j \in page : Rank(j) <= Rank(k))
                                ELSE 0]

PageSizes == 1..MaxPage

\* k.endsWith("account.json")
EndsWithAccountJson(k) == k[2] = "account.json"

\* The last segment of the key taken for the account id.
UserIdOfKeyLastSegment(k) == k[2]

\* key.split("/")[1]
UserIdOfKey(k) == k[1]

\* JSON.parse of the body succeeded and accountJson.username.toLowerCase() and
\* accountJson.email.toLowerCase() did not throw.
HasIndexFields(r) ==
  r.t = "account" /\ "username" \in DOMAIN r /\ "email" \in DOMAIN r

\* A per-account catch that gives up the rest of the page.
AfterAccountFailureDropPage(l) == [l EXCEPT !.queue = <<>>]

\* The locals after the catch of one account: the loop goes on with the next key.
AfterAccountFailure(l) == [l EXCEPT !.queue = Tail(@)]

\* A fatal answer that carries a counter.
RebuildFailedWithCounters(logs) ==
  jsonResponse(500, "ERR_REBUILD_FAILED", "Rebuild failed: S3 error", [rebuilt |-> 0], logs)

RebuildFailed(logs) ==
  jsonResponse(500, "ERR_REBUILD_FAILED", "Rebuild failed: S3 error", NoData, logs)

(***************************************************************************)
(* handleRebuildIndexes of src/index.mjs: the additive pass                *)
(***************************************************************************)
RebuildAdditive(p) ==
  Enter(p, [op |-> "rebuildA"], "ra_list", "/rebuild-indexes")

\* After an account of the page is dealt with: the next account, the next
\* page, or the answer with the counters.
AddAdvance(p, l) ==
  IF l.queue # <<>>
  THEN /\ lv' = [lv EXCEPT ![p] = l]
       /\ pc' = [pc EXCEPT ![p] = "ra_get"]
       /\ UNCHANGED resp
  ELSE IF l.next # 0
  THEN /\ lv' = [lv EXCEPT ![p] = [l EXCEPT !.token = l.next]]
       /\ pc' = [pc EXCEPT ![p] = "ra_list"]
       /\ UNCHANGED resp
  ELSE Return(p, l, jsonResponse(200, "SUCCESS_REBUILD_INDEXES", "Index rebuild complete",
                                 [rebuilt |-> l.rebuilt, skipped |-> l.skipped], l.logs))

AddList(p) ==
  /\ pc[p] = "ra_list"
  /\ \E o \in Outcomes, n \in PageSizes :
       LET res == ListResult(store, "users/", lv[p].token, n)
           l1 == [lv[p] EXCEPT !.fault = @ \/ o = "error"]
       IN /\ faults' = Charge(o)
          /\ IF o = "error"
             THEN LET l2 == [l1 EXCEPT !.logs = Append(@, "Rebuild failed: S3 error")]
                  IN Return(p, l2, RebuildFailed(l2.logs))
             ELSE AddAdvance(p, [l1 EXCEPT !.queue = SelectSeq(res.Contents, EndsWithAccountJson),
                                           !.next = res.NextContinuationToken])
  /\ UNCHANGED <<store, arg, ops, s3fails, hist>>

\* The account record of the next key of the page is read and decoded.
AddGet(p) ==
  /\ pc[p] = "ra_get"
  /\ \E o \in Outcomes :
       LET key == Head(lv[p].queue)
           r == GetResult(key, o)
           l1 == [lv[p] EXCEPT !.fault = @ \/ o = "error",
                               !.visited = Append(@, key),
                               !.userId = UserIdOfKey(key), !.rec = r]
       IN /\ faults' = Charge(o)
          /\ IF HasIndexFields(r)
             THEN /\ lv' = [lv EXCEPT ![p] = l1]
                  /\ pc' = [pc EXCEPT ![p] = "ra_chkU"]
                  /\ UNCHANGED resp
             ELSE AddAdvance(p, [AfterAccountFailure(l1) EXCEPT
                                   !.logs = Append(@, "Failed processing account: " \o ErrMessage(r))])
  /\ UNCHANGED <<store, arg, ops, s3fails, hist>>

AddCheckUsername(p) ==
  /\ pc[p] = "ra_chkU"
  /\ \E o \in Outcomes :
       LET r == GetResult(UsernameKey(lv[p].rec.username), o)
       IN /\ faults' = Charge(o)
          /\ lv' = [lv EXCEPT ![p] = [@ EXCEPT !.fault = @ \/ o = "error",
                                               !.chkU = CheckStatus(r)]]
          /\ pc' = [pc EXCEPT ![p] = "ra_chkE"]
  /\ UNCHANGED <<store, arg, resp, ops, s3fails, hist>>

\* The additive pass putting the by-username entry whatever its presence check
\* answered.
AddNeededUsernameAlways(rec, chkU, chkE) ==
  {<<"by-username", Lower(rec.username) \o ".json">>}
    \cup (IF chkE = "NoSuchKey" THEN {<<"by-email", Lower(rec.email) \o ".json">>} ELSE {})

\* The additive pass putting both entries whatever the presence checks answered.
AddNeededBoth(rec, chkU, chkE) == {UsernameKey(rec.username), EmailKey(rec.email)}

\* The index entries the additive pass puts for the account: those whose
\* presence check answered NoSuchKey.
AddNeeded(rec, chkU, chkE) ==
  (IF chkU = "NoSuchKey" THEN {UsernameKey(rec.username)} ELSE {})
    \cup (IF chkE = "NoSuchKey" THEN {EmailKey(rec.email)} ELSE {})

AddCheckEmail(p) ==
  /\ pc[p] = "ra_chkE"
  /\ \E o \in Outcomes :
       LET r == GetResult(EmailKey(lv[p].rec.email), o)
           l1 == [lv[p] EXCEPT !.fault = @ \/ o = "error", !.chkE = CheckStatus(r)]
           need == AddNeeded(l1.rec, l1.chkU, l1.chkE)
       IN /\ faults' = Charge(o)
          /\ IF need # {}
             THEN /\ lv' = [lv EXCEPT ![p] = [l1 EXCEPT !.pend = need, !.failed = FALSE]]
                  /\ pc' = [pc EXCEPT ![p] = "ra_put"]
                  /\ UNCHANGED resp
             ELSE AddAdvance(p, [l1 EXCEPT !.queue = Tail(@), !.skipped = @ + 1])
  /\ UNCHANGED <<store, arg, ops, s3fails, hist>>

AddPut(p, k) ==
  /\ pc[p] = "ra_put"
  /\ k \in lv[p].pend
  /\ \E o \in Outcomes :
       LET l1 == [lv[p] EXCEPT !.pend = @ \ {k},
                               !.failed = @ \/ o = "error",
                               !.fault = @ \/ o = "error",
                               !.wrote = IF o = "ok" THEN @ \cup {k} ELSE @]
       IN /\ faults' = Charge(o)
          /\ store' = PutResult(store, k, IndexObj(lv[p].userId), o)
          /\ IF l1.pend # {}
             THEN /\ lv' = [lv EXCEPT ![p] = l1]
                  /\ UNCHANGED <<pc, resp>>
             ELSE IF l1.failed
             THEN AddAdvance(p, [AfterAccountFailure(l1) EXCEPT
                                   !.logs = Append(@, "Failed processing account: S3 error")])
             ELSE AddAdvance(p, [l1 EXCEPT !.queue = Tail(@), !.rebuilt = @ + 1,
                                           !.logs = Append(@, "Rebuilt index for userId=" \o l1.userId)])
  /\ UNCHANGED <<arg, ops, s3fails, hist>>

(***************************************************************************)
(* handleRebuildIndexes of src/acctdeletegit.txt: clear, then rebuild      *)
(***************************************************************************)
indexPrefixes == <<"users/by-username/", "users/by-email/">>

RebuildDestructive(p) ==
  /\ Enter(p, [op |-> "rebuildD"], "rd_clear", "/rebuild-indexes")

\* After a page of an index prefix: its next page, the next prefix, or step 1.
ClearAdvance(p, l) ==
  /\ UNCHANGED resp
  /\ IF l.next # 0
     THEN /\ lv' = [lv EXCEPT ![p] = [l EXCEPT !.token = l.next]]
          /\ pc' = [pc EXCEPT ![p] = "rd_clear"]
     ELSE IF l.prefix = indexPrefixes[1]
     THEN /\ lv' = [lv EXCEPT ![p] = [l EXCEPT !.token = 0, !.prefix = indexPrefixes[2]]]
          /\ pc' = [pc EXCEPT ![p] = "rd_clear"]
     ELSE /\ lv' = [lv EXCEPT ![p] = [l EXCEPT !.token = 0, !.prefix = "users/"]]
          /\ pc' = [pc EXCEPT ![p] = "rd_list"]

ClearList(p) ==
  /\ pc[p] = "rd_clear"
  /\ \E o \in Outcomes, n \in PageSizes :
       LET prefix == IF lv[p].prefix = "" THEN indexPrefixes[1] ELSE lv[p].prefix
           res == ListResult(store, prefix, lv[p].token, n)
           l1 == [lv[p] EXCEPT !.fault = @ \/ o = "error", !.prefix = prefix]
       IN /\ faults' = Charge(o)
          /\ IF o = "error"
             THEN LET l2 == [l1 EXCEPT !.logs = Append(@, "Rebuild failed: S3 error")]
                  IN Return(p, l2, RebuildFailed(l2.logs))
             ELSE IF res.Contents # <<>>
             THEN /\ lv' = [lv EXCEPT ![p] =
                              [l1 EXCEPT !.del = {res.Contents[i] : i \in 1..Len(res.Contents)},
                                         !.next = res.NextContinuationToken]]
                  /\ pc' = [pc EXCEPT ![p] = "rd_delete"]
                  /\ UNCHANGED resp
             ELSE ClearAdvance(p, [l1 EXCEPT !.next = res.NextContinuationToken])
  /\ UNCHANGED <<store, arg, ops, s3fails, hist>>

\* DeleteObjectsCommand that deletes nothing.
DeleteResultNothing(s, ks, o) == s

\* The bucket after DeleteObjectsCommand of the keys ks, under outcome o.
DeleteResult(s, ks, o) ==
  IF o = "error" THEN s ELSE [k \in Keys |-> IF k \in ks THEN Absent ELSE s[k]]

ClearDelete(p) ==
  /\ pc[p] = "rd_delete"
  /\ \E o \in Outcomes :
       LET l1 == [lv[p] EXCEPT !.fault = @ \/ o = "error", !.del = {}]
       IN /\ faults' = Charge(o)
          /\ store' = DeleteResult(store, lv[p].del, o)
          /\ IF o = "error"
             THEN LET l2 == [l1 EXCEPT !.logs = Append(@, "Rebuild failed: S3 error")]
                  IN Return(p, l2, RebuildFailed(l2.logs))
             ELSE ClearAdvance(p, [l1 EXCEPT !.logs = Append(@, "Cleared objects from " \o l1.prefix)])
  /\ UNCHANGED <<arg, ops, s3fails, hist>>

RdAdvance(p, l) ==
  IF l.queue # <<>>
  THEN /\ lv' = [lv EXCEPT ![p] = l]
       /\ pc' = [pc EXCEPT ![p] = "rd_get"]
       /\ UNCHANGED resp
  ELSE IF l.next # 0
  THEN /\ lv' = [lv EXCEPT ![p] = [l EXCEPT !.token = l.next]]
       /\ pc' = [pc EXCEPT ![p] = "rd_list"]
       /\ UNCHANGED resp
  ELSE Return(p, l, jsonResponse(200, "SUCCESS_REBUILD_INDEXES", "Index rebuild complete",
                                 [rebuilt |-> l.rebuilt], l.logs))

RdList(p) ==
  /\ pc[p] = "rd_list"
  /\ \E o \in Outcomes, n \in PageSizes :
       LET res == ListResult(store, "users/", lv[p].token, n)
           l1 == [lv[p] EXCEPT !.fault = @ \/ o = "error"]
       IN /\ faults' = Charge(o)
          /\ IF o = "error"
             THEN LET l2 == [l1 EXCEPT !.logs = Append(@, "Rebuild failed: S3 error")]
                  IN Return(p, l2, RebuildFailed(l2.logs))
             ELSE RdAdvance(p, [l1 EXCEPT !.queue = SelectSeq(res.Contents, EndsWithAccountJson),
                                          !.next = res.NextContinuationToken])
  /\ UNCHANGED <<store, arg, ops, s3fails, hist>>

\* A clear-and-rebuild pass that puts the by-email entry only.
RebuildOpsEmailOnly(rec) == {<<"by-email", Lower(rec.email) \o ".json">>}

\* The index entries the clear-and-rebuild pass puts for an account.
RebuildOpsUsernameOnly(rec) == {UsernameKey(rec.username)}

RebuildOps(rec) == {UsernameKey(rec.username), EmailKey(rec.email)}

\* The account record is read and decoded, and both index puts are issued.
RdGet(p) ==
  /\ pc[p] = "rd_get"
  /\ \E o \in Outcomes :
       LET key == Head(lv[p].queue)
           r == GetResult(key, o)
           l1 == [lv[p] EXCEPT !.fault = @ \/ o = "error",
                               !.visited = Append(@, key),
                               !.userId = UserIdOfKey(key), !.rec = r]
       IN /\ faults' = Charge(o)
          /\ IF HasIndexFields(r)
             THEN /\ lv' = [lv EXCEPT ![p] =
                              [l1 EXCEPT !.pend = RebuildOps(r),
                                         !.failed = FALSE]]
                  /\ pc' = [pc EXCEPT ![p] = "rd_put"]
                  /\ UNCHANGED resp
             ELSE RdAdvance(p, [AfterAccountFailure(l1) EXCEPT
                                  !.logs = Append(@, "Failed processing account: " \o ErrMessage(r))])
  /\ UNCHANGED <<store, arg, ops, s3fails, hist>>

RdPut(p, k) ==
  /\ pc[p] = "rd_put"
  /\ k \in lv[p].pend
  /\ \E o \in Outcomes :
       LET l1 == [lv[p] EXCEPT !.pend = @ \ {k},
                               !.failed = @ \/ o = "error",
                               !.fault = @ \/ o = "error",
                               !.wrote = IF o = "ok" THEN @ \cup {k} ELSE @]
       IN /\ faults' = Charge(o)
          /\ store' = PutResult(store, k, IndexObj(lv[p].userId), o)
          /\ IF l1.pend # {}
             THEN /\ lv' = [lv EXCEPT ![p] = l1]
                  /\ UNCHANGED <<pc, resp>>
             ELSE IF l1.failed
             THEN RdAdvance(p, [AfterAccountFailure(l1) EXCEPT
                                  !.logs = Append(@, "Failed processing account: S3 error")])
             ELSE RdAdvance(p, [l1 EXCEPT !.queue = Tail(@), !.rebuilt = @ + 1,
                                          !.logs = Append(@, "Rebuilt index for userId=" \o l1.userId)])
  /\ UNCHANGED <<arg, ops, s3fails, hist>>

(***************************************************************************)
(* verifyToken and the handlers that take a token: handleGetAccount,       *)
(* handleGetConfig, handleSaveConfig, handleUpdateSetting                  *)
(***************************************************************************)
JwtSecret == "JWT_SECRET"

\* The body carries no token.
NoToken == [kind |-> "missing"]

\* A token signed with key, past its expiry or not, whose payload holds userId
\* ("" for a payload without userId).
Jwt(key, expired, userId) ==
  [userId |-> userId, key |-> key, kind |-> "jwt", expired |-> expired]

\* The tokens requests carry: none, a good one of account id, one whose
\* payload has no userId, one signed with another key, one that has expired.
\* (Record constructors list their fields in the order TLC keeps them.)
TokenKinds == {"missing", "good", "nouserid", "forged", "expired"}
TokenOf(kind, id) ==
  IF kind = "missing" THEN NoToken
  ELSE Jwt(IF kind = "forged" THEN "other" ELSE JwtSecret,
           kind = "expired",
           IF kind = "nouserid" THEN "" ELSE id)

\* A config, a key or a value the body does not have.
NoField == [t |-> "undefined"]
Undefined == "undefined"

\* The config a save-config request carries, the setting an update-setting one does.
NewConfig == [t |-> "config", theme |-> "dark", notifications |-> FALSE]
SettingInputs == {<<"theme", "dark">>, <<"font", "big">>}

\* jwt.verify that does not look at the expiry.
jwtVerifyIgnoringExpiry(tok) ==
  IF tok.kind = "jwt" /\ tok.key = JwtSecret
  THEN [ok |-> TRUE, userId |-> tok.userId, message |-> ""]
  ELSE [ok |-> FALSE, userId |-> "", message |-> "jwt error"]

\* jwt.verify(token, JWT_SECRET): the payload, or a throw for a token that is
\* missing, signed with another key, or expired.
jwtVerify(tok) ==
  IF tok.kind = "jwt" /\ tok.key = JwtSecret /\ ~tok.expired
  THEN [ok |-> TRUE, userId |-> tok.userId, message |-> ""]
  ELSE [ok |-> FALSE, userId |-> "", message |-> "jwt error"]

\* verifyToken(body, log): decoded.userId, or a throw with its own message.
verifyToken(tok) ==
  IF tok = NoToken THEN [ok |-> FALSE, userId |-> "", message |-> "Missing token"]
  ELSE IF jwtVerify(tok).ok THEN jwtVerify(tok)
  ELSE [ok |-> FALSE, userId |-> "", message |-> "Invalid token"]

TokenOps == {"getAccount", "getConfig", "saveConfig", "updateSetting"}

RouteOf(op) ==
  CASE op = "getAccount" -> "/get-account"
    [] op = "getConfig" -> "/get-config"
    [] op = "saveConfig" -> "/save-config"
    [] op = "updateSetting" -> "/update-setting"

\* The first S3 call of the handler.
FirstCall(op) ==
  CASE op = "getAccount" -> "ga_get"
    [] op = "getConfig" -> "gc_get"
    [] op = "saveConfig" -> "sc_put"
    [] op = "updateSetting" -> "us_get"

\* A request to one of the four routes: a body that may not parse, a token,
\* and the fields of the route.
TokenRequest(p, op, body, tok, config, setting) ==
  Enter(p, [token |-> tok, op |-> op, config |-> config, key |-> setting[1],
            body |-> body, value |-> setting[2]],
        "t_check", RouteOf(op))

\* !userId, and the fields the route requires.
MissingFields(a, userId) ==
  \/ userId = ""
  \/ a.op = "saveConfig" /\ a.config = NoField
  \/ a.op = "updateSetting" /\ (a.key = Undefined \/ a.value = Undefined)

\* What a handler does before its first S3 call: JSON.parse of the body, the
\* verification of the token, the check of the required fields.
Authorize(p) ==
  /\ pc[p] = "t_check"
  /\ arg[p].op \in TokenOps
  /\ LET a == arg[p]
         v == IF a.op = "updateSetting" THEN jwtVerify(a.token) ELSE verifyToken(a.token)
     IN IF a.body = "unparsable"
        THEN LET l == [lv[p] EXCEPT !.logs = Append(@, "JSON parse error")]
             IN Return(p, l, jsonResponse(400, "ERR_INVALID_JSON", "Invalid JSON body", NoData, l.logs))
        ELSE IF ~v.ok
        THEN LET l == [lv[p] EXCEPT !.logs = Append(@, v.message)]
             IN Return(p, l, jsonResponse(401, "ERR_NOT_LOGGED_IN", "Unauthorized: " \o v.message,
                                         NoData, l.logs))
        ELSE IF MissingFields(a, v.userId)
        THEN Return(p, lv[p], jsonResponse(400, "ERR_MISSING_FIELDS", "Missing fields", NoData,
                                          lv[p].logs))
        ELSE /\ lv' = [lv EXCEPT ![p] = [@ EXCEPT !.userId = v.userId]]
             /\ pc' = [pc EXCEPT ![p] = FirstCall(a.op)]
             /\ UNCHANGED resp
  /\ UNCHANGED <<store, arg, faults, ops, s3fails, hist>>

\* const { password, ...safeAccount } = account
SafeAccount(r) == [f \in DOMAIN r \ {"password", "t"} |-> r[f]]

GetAccountRead(p) ==
  /\ pc[p] = "ga_get"
  /\ \E o \in Outcomes :
       LET r == GetResult(AccountKey(lv[p].userId), o)
           l1 == [lv[p] EXCEPT !.fault = @ \/ o = "error"]
       IN /\ faults' = Charge(o)
          /\ IF r.t = "account"
             THEN Return(p, l1, jsonResponse(200, "SUCCESS_GET_ACCOUNT", "Account fetched",
                                             [account |-> SafeAccount(r)], l1.logs))
             ELSE LET l2 == [l1 EXCEPT !.logs = Append(@, "Failed to load account: " \o ErrMessage(r))]
                  IN Return(p, l2, jsonResponse(404, "ERR_ACCOUNT_NOT_FOUND", "Account not found",
                                                NoData, l2.logs))
  /\ UNCHANGED <<store, arg, ops, s3fails, hist>>

GetConfigRead(p) ==
  /\ pc[p] = "gc_get"
  /\ \E o \in Outcomes :
       LET r == GetResult(ConfigKey(lv[p].userId), o)
           l1 == [lv[p] EXCEPT !.fault = @ \/ o = "error"]
       IN /\ faults' = Charge(o)
          /\ IF r.t = "config"
             THEN Return(p, l1, jsonResponse(200, "SUCCESS_GET_CONFIG", "Config fetched",
                                             [config |-> r], l1.logs))
             ELSE LET l2 == [l1 EXCEPT !.logs = Append(@, "Failed to load config: " \o ErrMessage(r))]
                  IN Return(p, l2, jsonResponse(404, "ERR_CONFIG_NOT_FOUND", "Config not found",
                                                NoData, l2.logs))
  /\ UNCHANGED <<store, arg, ops, s3fails, hist>>

SaveConfigPut(p) ==
  /\ pc[p] = "sc_put"
  /\ \E o \in Outcomes :
       LET k == ConfigKey(lv[p].userId)
           l1 == [lv[p] EXCEPT !.fault = @ \/ o = "error",
                               !.wrote = IF o = "ok" THEN @ \cup {k} ELSE @]
       IN /\ faults' = Charge(o)
          /\ store' = PutResult(store, k, arg[p].config, o)
          /\ IF o = "ok"
             THEN Return(p, l1, jsonResponse(200, "SUCCESS_SAVE_CONFIG", "Config saved",
                                             [config |-> arg[p].config], l1.logs))
             ELSE LET l2 == [l1 EXCEPT !.logs = Append(@, "Failed to save config: S3 error")]
                  IN Return(p, l2, jsonResponse(500, "ERR_S3_UPLOAD", "Failed to save config",
                                                NoData, l2.logs))
  /\ UNCHANGED <<arg, ops, s3fails, hist>>

\* config[key] = value
WithSetting(c, key, value) ==
  [f \in DOMAIN c \cup {key} |-> IF f = key THEN value ELSE c[f]]

UpdateFailed(l) ==
  LET l2 == [l EXCEPT !.logs = Append(@, "Failed to update config")]
  IN jsonResponse(500, "ERR_UPDATE_ERROR", "Update error", NoData, l2.logs)

\* The read of config.json and the assignment of the setting.
UpdateSettingRead(p) ==
  /\ pc[p] = "us_get"
  /\ \E o \in Outcomes :
       LET r == GetResult(ConfigKey(lv[p].userId), o)
           l1 == [lv[p] EXCEPT !.fault = @ \/ o = "error"]
       IN /\ faults' = Charge(o)
          /\ IF r.t = "config"
             THEN /\ lv' = [lv EXCEPT ![p] = [l1 EXCEPT !.rec = WithSetting(r, arg[p].key, arg[p].value)]]
                  /\ pc' = [pc EXCEPT ![p] = "us_put"]
                  /\ UNCHANGED resp
             ELSE Return(p, [l1 EXCEPT !.logs = Append(@, "Failed to update config")], UpdateFailed(l1))
  /\ UNCHANGED <<store, arg, ops, s3fails, hist>>

\* The put of the modified config.
UpdateSettingPut(p) ==
  /\ pc[p] = "us_put"
  /\ \E o \in Outcomes :
       LET k == ConfigKey(lv[p].userId)
           l1 == [lv[p] EXCEPT !.fault = @ \/ o = "error",
                               !.wrote = IF o = "ok" THEN @ \cup {k} ELSE @]
       IN /\ faults' = Charge(o)
          /\ store' = PutResult(store, k, lv[p].rec, o)
          /\ IF o = "ok"
             THEN Return(p, l1, jsonResponse(200, "SUCCESS_UPDATE_SETTING", "Setting updated",
                                             [config |-> lv[p].rec], l1.logs))
             ELSE Return(p, [l1 EXCEPT !.logs = Append(@, "Failed to update config")], UpdateFailed(l1))
  /\ UNCHANGED <<arg, ops, s3fails, hist>>

(***************************************************************************)
(* Statements about the directory                                          *)
(***************************************************************************)
Done(p, op) == pc[p] = "idle" /\ arg[p].op = op /\ resp[p] # NoResp

\* The account record stored for id in bucket s.
Account(s, id) == s[AccountKey(id)]
IsAccount(s, id) == s[AccountKey(id)].t = "account"

\* The index keys of bucket s that hold id.
EntriesFor(s, keys, id) == {k \in keys : s[k] = IndexObj(id)}

\* Username u has no index entry / is the username of an account for which pw is wrong.
NoEntry(s, u) == ~Has(s, UsernameKey(u))
WrongPassword(s, u, pw) ==
  /\ s[UsernameKey(u)].t = "index"
  /\ IsAccount(s, s[UsernameKey(u)].userId)
  /\ Account(s, s[UsernameKey(u)].userId).username = u
  /\ ~Verify(pw, Account(s, s[UsernameKey(u)].userId).password)

\* C1: enumeration resistance.  Two logins against the same bucket, neither
\* meeting a failed S3 call, one with a username that has no index entry and one
\* with an existing username and a wrong password, get the same answer in every
\* part of the body, the logs array included.
C1_EnumerationResistance ==
  \A p \in Procs :
    ( /\ Done(p, "login") /\ prev.arg.op = "login"
      /\ ~lv[p].fault /\ ~prev.fault
      /\ store = pre /\ prev.wrote = {}
      /\ NoEntry(store, prev.arg.username)
      /\ WrongPassword(store, arg[p].username, arg[p].password) )
    => resp[p] = prev.resp

\* Exactly one of the two index entries of account id is absent from bucket s,
\* the other one holding id.
OneEntryDeleted(s, id) ==
  LET uk == UsernameKey(Account(s, id).username)
      ek == EmailKey(Account(s, id).email)
  IN \/ s[uk] = Absent /\ s[ek] = IndexObj(id)
     \/ s[uk] = IndexObj(id) /\ s[ek] = Absent

\* C2: self-heal.  A login with the exact username and the password of an
\* account that was created successfully and has lost exactly one of its two
\* index entries leaves both entries present and holding the account id.
C2_SelfHealRecreatesEntry ==
  \A p \in Procs : \A id \in created :
    ( /\ Done(p, "login") /\ ~lv[p].fault
      /\ IsAccount(pre, id)
      /\ Account(pre, id).username = arg[p].username
      /\ Verify(arg[p].password, Account(pre, id).password)
      /\ OneEntryDeleted(pre, id) )
    => /\ store[UsernameKey(Account(pre, id).username)] = IndexObj(id)
       /\ store[EmailKey(Account(pre, id).email)] = IndexObj(id)

\* C3: self-heal idempotence.  A successful login that found both index entries
\* of its account present when it was entered writes nothing to the bucket.
C3_NoWriteWhenEntriesPresent ==
  \A p \in Procs :
    ( /\ Done(p, "login") /\ resp[p].statusCode = 200
      /\ Has(pre, UsernameKey(lv[p].rec.username))
      /\ Has(pre, EmailKey(lv[p].rec.email)) )
    => lv[p].wrote = {} /\ store = pre

\* The second of two consecutive successful logins to the same account, the
\* first of which recreated an entry.
C3_Witness ==
  \E p \in Procs :
    /\ Done(p, "login") /\ resp[p].statusCode = 200
    /\ prev.arg = arg[p] /\ prev.resp.statusCode = 200 /\ prev.wrote # {}
    /\ lv[p].wrote = {}

SharesUsername(s, id) ==
  \E j \in Ids \ {id} :
    IsAccount(s, j) /\ Lower(Account(s, j).username) = Lower(Account(s, id).username)
SharesEmail(s, id) ==
  \E j \in Ids \ {id} :
    IsAccount(s, j) /\ Lower(Account(s, j).email) = Lower(Account(s, id).email)

\* A clear-and-rebuild pass that returned success and met no failed S3 call.
CleanDestructive(p) ==
  Done(p, "rebuildD") /\ resp[p].statusCode = 200 /\ ~lv[p].fault

FullDestructive(p) ==
  /\ Done(p, "rebuildD") /\ resp[p].statusCode = 200
  /\ resp[p].data.rebuilt = Cardinality({id \in Ids : IsAccount(store, id)})

Dangling(s) ==
  {k \in IndexKeys : Has(s, k) /\ ~(s[k].t = "index" /\ s[k].userId \in Ids /\ IsAccount(s, s[k].userId))}

\* C5: after a clear-and-rebuild pass returned success, every key under
\* users/by-username/ and users/by-email/ holds the id of an account record
\* that exists.
C5_NoDanglingAfterDestructive ==
  \A p \in Procs :
    (Done(p, "rebuildD") /\ resp[p].statusCode = 200) => Dangling(store) = {}

\* A pass that found an index entry without its account record.
C5_Witness ==
  \E p \in Procs :
    /\ Done(p, "rebuildD") /\ resp[p].statusCode = 200
    /\ Dangling(pre) # {}
    /\ \E id \in Ids : IsAccount(store, id)

\* The additive pass that just returned, and the pass before it, returned
\* success and met no failed S3 call.
TwoAdditiveRuns(p) ==
  /\ Done(p, "rebuildA") /\ resp[p].statusCode = 200 /\ ~lv[p].fault
  /\ prev.arg.op = "rebuildA" /\ prev.resp.statusCode = 200 /\ ~prev.fault

\* C6: additive rebuild idempotence.  The second of two consecutive additive
\* passes, neither meeting a failed S3 call, returns rebuilt = 0.
C6_SecondAdditiveRebuildsNothing ==
  \A p \in Procs : TwoAdditiveRuns(p) => resp[p].data.rebuilt = 0

\* Two consecutive passes, the first of which rebuilt an account.
C6_Witness ==
  \E p \in Procs :
    TwoAdditiveRuns(p) /\ prev.resp.data.rebuilt > 0 /\ resp[p].data.rebuilt = 0

Occurrences(seq, x) == Cardinality({i \in 1..Len(seq) : seq[i] = x})

\* C7: pagination completeness.  A reconciliation pass never decodes a key
\* twice, and a pass that returned success has decoded every account key the
\* bucket held when the pass was entered.
C7_EveryAccountKeyOnce ==
  \A p \in Procs : arg[p].op \in {"rebuildA", "rebuildD"} =>
    /\ \A k \in Keys : Occurrences(lv[p].visited, k) <= 1
    /\ (Done(p, arg[p].op) /\ resp[p].statusCode = 200) =>
         \A id \in Ids : Has(pre, AccountKey(id)) => Occurrences(lv[p].visited, AccountKey(id)) = 1

\* A pass over two accounts that wrote index keys under the prefix it listed.
C7_Witness ==
  \E p \in Procs :
    /\ Done(p, "rebuildA") /\ resp[p].statusCode = 200
    /\ Len(lv[p].visited) >= 2
    /\ lv[p].wrote # {}

\* Spellings of one name that differ in letter case only.
CaseVariants == {{"al", "AL"}, {"x@q", "X@q"}}
SameIgnoringCase(a, b) == a = b \/ \E v \in CaseVariants : {a, b} \subseteq v

\* C8: duplicate rejection.  With no failed S3 call so far, a sign-up whose
\* username equals, letter case ignored, that of an account an earlier sign-up
\* created successfully is answered ERR_DUPLICATE_FIELD naming "username".
C8_DuplicateUsernameRejected ==
  \A p \in Procs :
    ( /\ Done(p, "create") /\ faults = 0
      /\ \E id \in created \ {lv[p].userId} :
           SameIgnoringCase(Account(store, id).username, arg[p].username) )
    => /\ resp[p].statusCode = 409
       /\ resp[p].data = [duplicateField |-> "username"]

\* A rejected sign-up whose username differs from the stored one in letter case
\* only, and whose email is new.
C8_Witness ==
  \E p \in Procs : \E id \in created :
    /\ Done(p, "create") /\ faults = 0
    /\ resp[p].statusCode = 409
    /\ Account(store, id).username # arg[p].username
    /\ SameIgnoringCase(Account(store, id).username, arg[p].username)
    /\ \A other \in created : ~SameIgnoringCase(Account(store, other).email, arg[p].email)

\* C9: a sign-up answered ERR_DUPLICATE_FIELD, or ERR_S3 by its duplicate check,
\* has written nothing: the bucket is as it was when the request was entered.
C9_RejectedSignUpWritesNothing ==
  \A p \in Procs :
    (Done(p, "create") /\ resp[p].status \in {"ERR_DUPLICATE_FIELD", "ERR_S3"})
    => store = pre /\ lv[p].wrote = {}

\* A sign-up rejected for its email alone.
C9_Witness ==
  \E p \in Procs :
    /\ Done(p, "create") /\ resp[p].status = "ERR_DUPLICATE_FIELD"
    /\ resp[p].data = [duplicateField |-> "email"]
    /\ ~Has(store, UsernameKey(arg[p].username))

\* Two sign-ups for the same lowercased username that both returned success.
BothCreated(p, q) ==
  /\ p # q
  /\ Done(p, "create") /\ resp[p].statusCode = 200
  /\ Done(q, "create") /\ resp[q].statusCode = 200
  /\ Lower(arg[p].username) = Lower(arg[q].username)

RaceOutcome ==
  \A p, q \in Procs : BothCreated(p, q) =>
    /\ lv[p].chkU = "NoSuchKey" /\ lv[q].chkU = "NoSuchKey"
    /\ lv[p].userId # lv[q].userId
    /\ Account(store, lv[p].userId).username = arg[p].username
    /\ Account(store, lv[q].userId).username = arg[q].username
    /\ EntriesFor(store, UsernameKeys, lv[p].userId) \cup EntriesFor(store, UsernameKeys, lv[q].userId)
         \in {{UsernameKey(arg[p].username)}}

\* A put of a sign-up that settles leaves its own object at the key.
LastWriteWins ==
  \A p \in Procs : \A k \in Keys :
    (pc[p] = "c_write" /\ k \in lv[p].pend /\ k \notin lv'[p].pend /\ k \in lv'[p].wrote)
    => store'[k] = CreateBody(p, k)

\* C10: check-then-write race.  Two overlapping sign-ups for the same username
\* that both return success have both seen the username available and leave two
\* account records and a single by-username entry, and every index put
\* replaces what the key held, so that the entry holds the id that was put last.
C10_CheckThenWriteRace == [](RaceOutcome) /\ [][LastWriteWins]_vars

\* Both sign-ups have returned success.
C10_Witness ==
  \E p, q \in Procs :
    /\ BothCreated(p, q)
    /\ arg[p].username # arg[q].username

\* The four keys of the sign-up of process p.
FourKeys(p) ==
  {AccountKey(lv[p].userId), ConfigKey(lv[p].userId),
   UsernameKey(arg[p].username), EmailKey(arg[p].email)}

\* C12: a sign-up that has just returned success has written all four keys:
\* the account record with the supplied username and email and the hash of the
\* password, the default config, and both index entries holding the id that
\* the answer carries.
C12_SuccessWroteFourKeys ==
  \A p \in Procs :
    (Done(p, "create") /\ resp[p].statusCode = 200) =>
      /\ lv[p].wrote = FourKeys(p)
      /\ store[AccountKey(resp[p].data.userId)]
           = [t |-> "account", username |-> arg[p].username,
              password |-> Hash(arg[p].password), email |-> arg[p].email]
      /\ store[ConfigKey(resp[p].data.userId)]
           = [t |-> "config", theme |-> "light", notifications |-> TRUE]
      /\ store[UsernameKey(arg[p].username)] = [t |-> "index", userId |-> resp[p].data.userId]
      /\ store[EmailKey(arg[p].email)] = [t |-> "index", userId |-> resp[p].data.userId]

\* What the sign-up of process p is to store at key k.
ExpectedBody(p, k) ==
  IF k = <<lv[p].userId, "account.json">>
  THEN [t |-> "account", username |-> arg[p].username,
        password |-> <<"bcrypt", arg[p].password>>, email |-> arg[p].email]
  ELSE IF k = <<lv[p].userId, "config.json">>
  THEN [t |-> "config", theme |-> "light", notifications |-> TRUE]
  ELSE [t |-> "index", userId |-> lv[p].userId]

\* C13: a sign-up of which a creation write failed is answered ERR_S3_UPLOAD,
\* never success, and leaves in the bucket exactly the writes of the call that
\* succeeded: every key it wrote holds what it put, every other key what it
\* held when the request was entered.
C13_FailedSignUpKeepsPartialWrites ==
  \A p \in Procs :
    (Done(p, "create") /\ lv[p].failed) =>
      /\ resp[p].statusCode = 500 /\ resp[p].status = "ERR_S3_UPLOAD"
      /\ lv[p].wrote \subseteq FourKeys(p) /\ lv[p].wrote # FourKeys(p)
      /\ \A k \in Keys :
           store[k] = IF k \in lv[p].wrote THEN ExpectedBody(p, k) ELSE pre[k]

\* Two failed sign-ups in a row: the first left both index entries of an
\* account record that is absent, the second an account record without its
\* by-username entry.
C13_Witness ==
  \E p \in Procs :
    /\ Done(p, "create") /\ lv[p].failed
    /\ prev.arg.op = "create" /\ prev.resp.statusCode = 500
    /\ \E id \in Ids : \E ku \in UsernameKeys : \E ke \in EmailKeys :
         /\ ~Has(store, <<id, "account.json">>)
         /\ store[ku] = [t |-> "index", userId |-> id]
         /\ store[ke] = [t |-> "index", userId |-> id]
    /\ Has(store, <<lv[p].userId, "account.json">>)
    /\ ~Has(store, UsernameKey(arg[p].username))

\* C14: tie-break of the duplicate check.  A sign-up whose two lookups both
\* answered reports "username" when both entries exist, and reports "email"
\* exactly when the by-email entry exists and the by-username entry does not.
C14_UsernameReportedFirst ==
  \A p \in Procs :
    (Done(p, "create") /\ ~lv[p].fault) =>
      LET hasU == Has(pre, UsernameKey(arg[p].username))
          hasE == Has(pre, EmailKey(arg[p].email))
      IN /\ (hasU /\ hasE) => resp[p].data = [duplicateField |-> "username"]
         /\ (resp[p].status = "ERR_DUPLICATE_FIELD" /\ resp[p].data = [duplicateField |-> "email"])
              <=> (hasE /\ ~hasU)

\* A sign-up rejected on "username" while its by-email entry existed too.
C14_Witness ==
  \E p \in Procs :
    /\ Done(p, "create") /\ ~lv[p].fault
    /\ resp[p].status = "ERR_DUPLICATE_FIELD"
    /\ resp[p].data = [duplicateField |-> "username"]
    /\ Has(pre, UsernameKey(arg[p].username)) /\ Has(pre, EmailKey(arg[p].email))

\* A lookup of the duplicate check of the sign-up of p failed (no creation
\* write did: those set failed as well).
LookupFailed(p) == Done(p, "create") /\ lv[p].fault /\ ~lv[p].failed

\* C15: a sign-up of which a lookup of the duplicate check failed with an error
\* other than NoSuchKey is answered ERR_S3, neither success nor
\* ERR_DUPLICATE_FIELD, and has written nothing, whatever the other lookup
\* answered.
C15_LookupErrorAborts ==
  \A p \in Procs :
    LookupFailed(p) =>
      /\ resp[p].statusCode = 500 /\ resp[p].status = "ERR_S3"
      /\ store = pre /\ lv[p].wrote = {}

\* The by-email lookup failed while the by-username entry existed.
C15_Witness ==
  \E p \in Procs :
    /\ LookupFailed(p)
    /\ lv[p].chkU = "fulfilled" /\ lv[p].chkE = "error"
    /\ Has(pre, UsernameKey(arg[p].username))
    /\ resp[p].status = "ERR_S3"

\* C16: a request of which an S3 call failed with an error other than NoSuchKey
\* is answered with a failure (status code 500): not with success, not with
\* ERR_INVALID_CREDENTIALS, not with an empty config or a "skipped" tally.
C16_StorageErrorSurfaces ==
  \A p \in Procs :
    (pc[p] = "idle" /\ resp[p] # NoResp /\ lv[p].fault) => resp[p].statusCode = 500

\* C17: partial tolerance of the self-heal.  A login that verified the
\* credential and of which a put of the self-heal failed is not answered
\* ERR_INVALID_CREDENTIALS: it is answered SUCCESS_LOGIN.
C17_SelfHealFailureTolerated ==
  \A p \in Procs :
    (Done(p, "login") /\ lv[p].failed) =>
      /\ resp[p].status # "ERR_INVALID_CREDENTIALS"
      /\ resp[p].statusCode = 200

\* C18: frame of the additive pass.  While an additive pass runs with no other
\* request, and after it, every key the bucket held when the pass was entered
\* holds what it held then (no key is removed, no index entry changed, a stale
\* one included), and no account.json or config.json key is written.
C18_AdditiveFrame ==
  \A p \in Procs :
    arg[p].op = "rebuildA" =>
      \A k \in DOMAIN store : store[k] # pre[k] => (k \in IndexKeys /\ ~Has(pre, k))

\* A pass that returned success over an account whose by-username key holds
\* the id of another account.
C18_Witness ==
  \E p \in Procs : \E id \in Ids :
    /\ Done(p, "rebuildA") /\ resp[p].statusCode = 200 /\ ~lv[p].fault
    /\ IsAccount(pre, id)
    /\ pre[UsernameKey(Account(pre, id).username)].t = "index"
    /\ pre[UsernameKey(Account(pre, id).username)].userId # id
    /\ store[UsernameKey(Account(pre, id).username)] = pre[UsernameKey(Account(pre, id).username)]

\* The record has the two fields the index keys are made of.
HasFields(r) == r.t = "account" /\ {"username", "email"} \subseteq DOMAIN r

Malformed(s, id) == Has(s, AccountKey(id)) /\ ~HasFields(s[AccountKey(id)])

\* C19: an account whose record does not parse or lacks username or email is
\* skipped.  No index entry is ever written for it; the pass reads every
\* account record of the bucket, and when none of its storage calls failed it
\* answers success with both entries of every well-formed account present.
C19_MalformedAccountSkipped ==
  \A p \in Procs :
    arg[p].op \in {"rebuildA", "rebuildD"} =>
      /\ \A k \in DOMAIN store :
            (store[k].t = "index" /\ store[k] # pre[k]) => ~Malformed(pre, store[k].userId)
      /\ (pc[p] = "idle" /\ resp[p] # NoResp /\ ~lv[p].fault) =>
            /\ resp[p].statusCode = 200
            /\ \A id \in Ids : Has(pre, AccountKey(id)) =>
                  \E i \in 1..Len(lv[p].visited) : lv[p].visited[i] = AccountKey(id)
            /\ \A id \in Ids : (Has(pre, AccountKey(id)) /\ ~Malformed(pre, id)) =>
                  /\ Has(store, UsernameKey(pre[AccountKey(id)].username))
                  /\ Has(store, EmailKey(pre[AccountKey(id)].email))

\* A pass that met the malformed record before the well-formed one and wrote
\* an index entry of the latter.
C19_Witness ==
  \E p \in Procs : \E bad, id \in Ids :
    /\ pc[p] = "idle" /\ arg[p].op \in {"rebuildA", "rebuildD"}
    /\ resp[p] # NoResp /\ resp[p].statusCode = 200
    /\ Malformed(pre, bad)
    /\ Has(pre, AccountKey(id)) /\ ~Malformed(pre, id)
    /\ \E i, j \in 1..Len(lv[p].visited) :
         i < j /\ lv[p].visited[i] = AccountKey(bad) /\ lv[p].visited[j] = AccountKey(id)
    /\ lv[p].wrote # {}
    /\ \A k \in lv[p].wrote : store[k] = IndexObj(id)

\* Process p is at a listing call or at a batch delete, and the call fails in
\* this step.
ListOrDeleteFails(p) ==
  pc[p] \in {"ra_list", "rd_clear", "rd_delete", "rd_list"} /\ faults' = faults + 1

\* C20: a listing call or a batch delete that fails ends the pass in that very
\* step: the answer is 500 ERR_REBUILD_FAILED with no counter in its data, and
\* the bucket stays as it was at the failure (the entries cleared or rewritten
\* so far are neither restored nor completed).
C20_ListOrDeleteFailureIsFatal ==
  [][\A p \in Procs :
       ListOrDeleteFails(p) =>
         /\ pc'[p] = "idle"
         /\ resp'[p].statusCode = 500
         /\ resp'[p].status = "ERR_REBUILD_FAILED"
         /\ DOMAIN resp'[p].data \cap {"rebuilt", "skipped"} = {}
         /\ store' = store]_vars

\* A destructive pass that failed fatally after it had removed index entries
\* and before it had rewritten all of them.
C20_Witness ==
  \E p \in Procs :
    /\ Done(p, "rebuildD")
    /\ resp[p].statusCode = 500 /\ resp[p].status = "ERR_REBUILD_FAILED"
    /\ \E k \in IndexKeys : Has(pre, k) /\ ~Has(store, k)
    /\ \E k \in IndexKeys : Has(pre, k) /\ Has(store, k)

\* The request of p names an account of the bucket and its password.
CorrectLogin(p) ==
  /\ arg[p].op = "login"
  /\ \E id \in Ids :
       /\ store[AccountKey(id)].t = "account"
       /\ store[AccountKey(id)].username = arg[p].username
       /\ store[AccountKey(id)].password = Hash(arg[p].password)

\* A destructive pass is between its entry and its answer.
DestructiveRunning == \E q \in Procs : pc[q] \in {"rd_clear", "rd_delete", "rd_list", "rd_get", "rd_put"}

\* C21: the window of the destructive rebuild.  A login with the username and
\* the password of an account is answered 401 only at its index lookup, only
\* while a destructive pass is running, and only because the by-username
\* entry of the account is absent at that moment.
C21_RejectedOnlyInWindow ==
  [][\A p \in Procs :
       (CorrectLogin(p) /\ pc[p] # "idle" /\ pc'[p] = "idle" /\ resp'[p].statusCode = 401) =>
         /\ pc[p] = "l_lookup"
         /\ DestructiveRunning
         /\ ~Has(store, UsernameKey(arg[p].username))]_vars

\* A login with the right username and password answered 401 while the pass
\* that cleared the entry has not returned yet.
C21_Witness ==
  \E p \in Procs :
    /\ Done(p, "login") /\ CorrectLogin(p)
    /\ resp[p].statusCode = 401 /\ resp[p].status = "ERR_INVALID_CREDENTIALS"
    /\ DestructiveRunning

\* No request is being handled.
Quiescent == \A p \in Procs : pc[p] = "idle"

\* C22: index integrity under sequential use.  Between requests handled one
\* after the other from the empty bucket, no S3 call having failed, every
\* account record has exactly one by-username entry and exactly one by-email
\* entry holding its id, and no two account records have the same username or
\* the same email, letter case ignored.
C22_OneEntryPerNamespace ==
  (Quiescent /\ faults = 0) =>
    /\ \A id \in Ids : store[AccountKey(id)].t = "account" =>
          /\ Cardinality({k \in UsernameKeys : store[k] = IndexObj(id)}) = 1
          /\ Cardinality({k \in EmailKeys : store[k] = IndexObj(id)}) = 1
    /\ \A i, j \in Ids :
          (i # j /\ store[AccountKey(i)].t = "account" /\ store[AccountKey(j)].t = "account") =>
            /\ ~SameIgnoringCase(store[AccountKey(i)].username, store[AccountKey(j)].username)
            /\ ~SameIgnoringCase(store[AccountKey(i)].email, store[AccountKey(j)].email)

\* Two accounts, a clear-and-rebuild pass and then a login answered, with no
\* failed call.
C22_Witness ==
  /\ Quiescent /\ faults = 0
  /\ Cardinality({id \in Ids : store[AccountKey(id)].t = "account"}) = 2
  /\ \E p \in Procs : Done(p, "login") /\ resp[p].statusCode = 200
  /\ prev.arg.op = "rebuildD" /\ prev.resp.statusCode = 200

\* C23: no dangling entry at quiescence.  Under any interleaving of requests
\* from the empty bucket with no failed S3 call, whenever no request is being
\* handled every index entry holds the id of an account record of the bucket.
C23_NoDanglingAtQuiescence ==
  Quiescent =>
    \A k \in IndexKeys : store[k] # Absent =>
      /\ store[k].t = "index"
      /\ store[k].userId \in Ids
      /\ store[AccountKey(store[k].userId)].t = "account"

\* A sign-up answered with success and a login or an additive pass that overlapped it:
\* with no failed call, the latter wrote an entry only because it ran between
\* the writes of the sign-up.
C23_Witness ==
  /\ Quiescent
  /\ \E p, q \in Procs :
       /\ Done(p, "create") /\ resp[p].status = "SUCCESS_CREATE_ACCOUNT"
       /\ arg[q].op \in {"login", "rebuildA"} /\ Done(q, arg[q].op)
       /\ lv[q].wrote # {}
  /\ \E k \in IndexKeys : store[k] # Absent

\* The token of the request of p is absent, signed with another key, or expired.
BadToken(p) ==
  /\ arg[p].op \in {"getAccount", "getConfig", "saveConfig", "updateSetting"}
  /\ arg[p].body = "json"
  /\ \/ arg[p].token.kind = "missing"
     \/ arg[p].token.kind = "jwt" /\ (arg[p].token.key # "JWT_SECRET" \/ arg[p].token.expired)

\* C24: a request to get-account, get-config, save-config or update-setting
\* whose token is missing or does not verify never reaches an S3 call: the one
\* step its handler takes answers 401 ERR_NOT_LOGGED_IN and leaves the bucket
\* as it is.
C24_BadTokenRejected ==
  [][\A p \in Procs :
       (BadToken(p) /\ pc[p] # "idle") =>
         /\ pc[p] = "t_check"
         /\ pc'[p] = "idle"
         /\ resp'[p].statusCode = 401
         /\ resp'[p].status = "ERR_NOT_LOGGED_IN"
         /\ store' = store
         /\ lv'[p].wrote = {} /\ faults' = faults]_vars

\* A save-config with an expired token was answered 401 after a save-config
\* with a good token had rewritten the config.
C24_Witness ==
  \E p \in Procs :
    /\ Done(p, "saveConfig") /\ BadToken(p) /\ arg[p].token.kind = "jwt"
    /\ arg[p].config # [t |-> "undefined"]
    /\ resp[p].statusCode = 401
    /\ prev.arg.op = "saveConfig" /\ prev.resp.statusCode = 200
    /\ store = pre

\* C25: the tally of the additive pass.  The step that counts an account as
\* skipped found both of its entries present (neither presence check failed);
\* the step that counts it as rebuilt wrote an entry for it; an account one of
\* whose presence checks failed with an error other than NoSuchKey raises
\* neither counter.
C25_AdditiveTally ==
  [][\A p \in Procs :
       /\ (pc[p] = "ra_chkE" /\ lv'[p].skipped = lv[p].skipped + 1) =>
            /\ lv[p].chkU = "fulfilled"
            /\ lv'[p].chkE = "fulfilled"
            /\ Has(store, EmailKey(lv[p].rec.email))
       /\ (pc[p] = "ra_put" /\ lv'[p].rebuilt = lv[p].rebuilt + 1) =>
            /\ lv'[p].wrote # {}
            /\ lv[p].chkU # "error" /\ lv[p].chkE # "error"]_vars

\* The sum of the counters of the data of a rebuild answer.
CountersOf(d) ==
  (IF "rebuilt" \in DOMAIN d THEN d.rebuilt ELSE 0)
    + (IF "skipped" \in DOMAIN d THEN d.skipped ELSE 0)

\* C26: every account key a pass listed is counted by the counters of its
\* answer.  When no storage call of a pass failed, the counters of its success
\* answer add up to the number of account keys it listed, the malformed ones
\* included.
C26_EveryListedAccountCounted ==
  \A p \in Procs :
    (pc[p] = "idle" /\ arg[p].op \in {"rebuildA", "rebuildD"} /\ resp[p] # NoResp
       /\ resp[p].statusCode = 200 /\ ~lv[p].fault) =>
      CountersOf(resp[p].data) = Len(lv[p].visited)

\* A key of the form users/<accountId>/account.json.
IsPrimaryAccountKey(k) == k[2] = "account.json" /\ k[1] \notin {"by-username", "by-email"}

\* C27: the keys a pass fetches and decodes as account records are primary
\* account keys only: no key under by-username/ or by-email/, no config key.
C27_OnlyAccountKeysDecoded ==
  \A p \in Procs :
    arg[p].op \in {"rebuildA", "rebuildD"} =>
      \A i \in 1..Len(lv[p].visited) : IsPrimaryAccountKey(lv[p].visited[i])

\* C28: the order of the destructive pass when nothing else writes.  A key
\* disappears only in a batch delete of the pass, before the pass has written
\* anything; the pass writes only after its clear phase; and in the step that
\* ends the clear phase no key is left under users/by-username/ or
\* users/by-email/.
C28_ClearBeforeWrite ==
  [][\A p \in Procs :
       arg[p].op = "rebuildD" =>
         /\ (\E k \in DOMAIN store : Has(store, k) /\ ~Has(store', k)) =>
              (pc[p] = "rd_delete" /\ lv[p].wrote = {} /\ lv[p].visited = <<>>)
         /\ (\E k \in DOMAIN store : store'[k] # store[k] /\ Has(store', k)) =>
              pc[p] = "rd_put"
         /\ (pc[p] \in {"rd_clear", "rd_delete"} /\ pc'[p] = "rd_list") =>
              \A k \in DOMAIN store : k[1] \in {"by-username", "by-email"} => ~Has(store', k)]_vars

\* The clear phase has just ended after deleting two by-username entries in
\* two batches, the second listed after the first was deleted.
C28_Witness ==
  \E p \in Procs :
    /\ arg[p].op = "rebuildD" /\ pc[p] = "rd_list" /\ lv[p].visited = <<>>
    /\ Cardinality({k \in UsernameKeys : Has(pre, k)}) = 2
    /\ Occurrences(lv[p].logs, "Cleared objects from users/by-username/") = 2
    /\ \A k \in IndexKeys : ~Has(store, k)

\* C29: sign-ups that overlap a destructive pass.  Once the pass has answered
\* success and every sign-up has answered, every account record has exactly
\* one by-username and one by-email entry holding its id.
C29_IndexedAfterLiveRebuild ==
  (Quiescent /\ \E p \in Procs : Done(p, "rebuildD") /\ resp[p].statusCode = 200) =>
    \A id \in Ids : Has(store, AccountKey(id)) =>
      /\ Cardinality({k \in UsernameKeys : store[k] = IndexObj(id)}) = 1
      /\ Cardinality({k \in EmailKeys : store[k] = IndexObj(id)}) = 1

\* C30: termination of reconciliation.  With no other writer, a pass that is
\* under way eventually answers.
C30_PassTerminates ==
  \A p \in Procs :
    (arg[p].op \in {"rebuildA", "rebuildD"} /\ pc[p] # "idle") ~> (pc[p] = "idle")

\* A pass answered success after several listing calls, having written an
\* index key that sorts after its first account key and that its listing had
\* still to pass.
C30_Witness ==
  \E p \in Procs :
    /\ pc[p] = "idle" /\ arg[p].op \in {"rebuildA", "rebuildD"}
    /\ resp[p] # NoResp /\ resp[p].statusCode = 200
    /\ lv[p].visited # <<>>
    /\ \E k \in lv[p].wrote :
         Rank(k) > Rank(lv[p].visited[1]) /\ lv[p].token >= Rank(k)

\* C31: a login is answered success only when, in the bucket it found, the
\* by-username entry of the lowercased supplied username exists, the account
\* record the entry points to exists, the username stored in that record is
\* the supplied one letter for letter and the supplied password is the one the
\* record's digest was made of; the token it answers names the account of the
\* entry.  Hence a username that differs from the stored one in letter case is
\* refused, and an account the entry does not point to is never logged in.
C31_SuccessNeedsExactMatch ==
  \A p \in Procs :
    (Done(p, "login") /\ resp[p].statusCode = 200) =>
      LET k == UsernameKey(arg[p].username) IN
        /\ pre[k].t = "index"
        /\ LET a == pre[AccountKey(pre[k].userId)] IN
             /\ a.t = "account"
             /\ a.username = arg[p].username
             /\ a.password = Hash(arg[p].password)
        /\ resp[p].data.token = Token(pre[k].userId, arg[p].username)

\* A login under the stored username "AL" succeeded right after the login
\* under "al" with the same, correct, password was refused although its
\* lookup hit the entry, no S3 call of either having failed.
C31_Witness ==
  \E p \in Procs :
    /\ Done(p, "login") /\ resp[p].statusCode = 200 /\ ~lv[p].fault
    /\ arg[p].username = "AL" /\ arg[p].password = "pw"
    /\ prev.arg.op = "login" /\ prev.arg.username = "al" /\ prev.arg.password = "pw"
    /\ prev.resp.statusCode = 401 /\ ~prev.fault
    /\ pre[UsernameKey("al")].t = "index"

\* C32: no lost config update.  When two update-setting requests of one
\* account for different keys have both answered success, the stored config
\* holds the setting of each.
C32_NoLostSetting ==
  \A p, q \in Procs :
    (/\ p # q
     /\ Done(p, "updateSetting") /\ resp[p].statusCode = 200
     /\ Done(q, "updateSetting") /\ resp[q].statusCode = 200
     /\ arg[p].key # arg[q].key) =>
      LET c == store[ConfigKey(IdPool[1])] IN
        /\ c.t = "config"
        /\ arg[p].key \in DOMAIN c /\ c[arg[p].key] = arg[p].value
        /\ arg[q].key \in DOMAIN c /\ c[arg[q].key] = arg[q].value

\* The put of an ensure settles in this step: process p, running the self-heal
\* of handleLogin or the additive pass, is done with key k.
EnsurePutSettles(p, k) ==
  /\ pc[p] \in {"l_chkE", "l_join", "ra_put"}
  /\ k \in lv[p].pend
  /\ k \notin lv'[p].pend

\* C11: ensure never overwrites.  Under every interleaving of logins, sign-ups
\* and additive passes, a put of the self-heal or of the additive pass never
\* replaces an index entry that holds an account id with another account id.
C11_EnsureNeverOverwrites ==
  [][\A p \in Procs : \A k \in IndexKeys :
       (EnsurePutSettles(p, k) /\ store[k].t = "index")
       => store'[k] = store[k]]_vars

(***************************************************************************)
(* Specifications                                                          *)
(***************************************************************************)
\* No request has been entered yet.
Fresh ==
  /\ pc = [p \in Procs |-> "idle"]
  /\ arg = [p \in Procs |-> NoArg]
  /\ lv = [p \in Procs |-> Locals("")]
  /\ resp = [p \in Procs |-> NoResp]
  /\ faults = 0
  /\ ops = 0
  /\ prev = [arg |-> NoArg, resp |-> NoResp, fault |-> FALSE, wrote |-> {}]
  /\ created = {}

Empty ==
  /\ store = [k \in Keys |-> Absent]
  /\ pre = [k \in Keys |-> Absent]
  /\ Fresh

\* The bucket a sign-up of (u, e) under id leaves when, of its four puts, those
\* of the keys in lost failed (handleCreateAccount has no rollback).
BucketAfterSignUp(u, e, id, lost) ==
  [k \in Keys |->
     IF k \in lost THEN Absent
     ELSE IF k = AccountKey(id) THEN AccountObj(u, "pw", e)
     ELSE IF k = ConfigKey(id) THEN ConfigObj
     ELSE IF k \in {UsernameKey(u), EmailKey(e)} THEN IndexObj(id)
     ELSE Absent]

\* A bucket whose calls never fail, left by one sign-up that lost one of its
\* two index puts.
InitPartial ==
  /\ \E ue \in SignUps : \E id \in Ids :
       \E lost \in {{UsernameKey(ue[1])}, {EmailKey(ue[2])}} :
         store = BucketAfterSignUp(ue[1], ue[2], id, lost)
  /\ pre = store
  /\ s3fails = FALSE
  /\ Fresh

\* Bodies stored at an account.json key from which the rebuild cannot take
\* both index keys: text that is not JSON, a record without username, a
\* record without email.
MalformedRecords ==
  {[t |-> "unparsable"],
   [t |-> "account", password |-> Hash("pw"), email |-> "y@q"],
   [t |-> "account", username |-> "bo", password |-> Hash("pw")]}

\* A bucket whose calls may fail, holding one malformed account record and the
\* account of the sign-up of ("al", "x@q") with both index entries or without
\* the by-email one.
InitMalformed ==
  /\ \E id \in Ids : \E bad \in Ids \ {id} :
       \E lost \in {{}, {EmailKey("x@q")}} :
         \E r \in MalformedRecords :
           store = [BucketAfterSignUp("al", "x@q", id, lost) EXCEPT ![AccountKey(bad)] = r]
  /\ pre = store
  /\ s3fails = TRUE
  /\ Fresh

\* A bucket whose calls never fail, left by one sign-up all of whose puts
\* succeeded.
InitSignedUp ==
  /\ \E ue \in SignUps : \E id \in Ids :
       store = BucketAfterSignUp(ue[1], ue[2], id, {})
  /\ pre = store
  /\ s3fails = FALSE
  /\ Fresh

\* A bucket whose calls may fail, left by the sign-up of ("al", "x@q") all of
\* whose puts succeeded.
InitSignedUpFaulty ==
  /\ store = BucketAfterSignUp("al", "x@q", IdPool[1], {})
  /\ pre = store
  /\ s3fails = TRUE
  /\ Fresh

\* A bucket whose calls may fail, left by the sign-up of ("account", "x@q") all
\* of whose puts succeeded: its by-username key is users/by-username/account.json.
InitAccountName ==
  /\ \E id \in Ids : store = BucketAfterSignUp("account", "x@q", id, {})
  /\ pre = store
  /\ s3fails = TRUE
  /\ Fresh

\* An empty bucket whose calls may fail.
Init == Empty /\ s3fails = TRUE

\* An empty bucket whose calls never fail.
InitReliable == Empty /\ s3fails = FALSE

CreateStep(p) ==
  \/ \E ue \in SignUps, pw \in NewPasswords : CreateAccount(p, ue[1], ue[2], pw)
  \/ \E f \in {"username", "email"} : CreateCheck(p, f)
  \/ \E k \in Keys : CreateWrite(p, k)

LoginStep(p) ==
  \/ \E u \in LoginNames, pw \in Passwords : Login(p, u, pw)
  \/ LoginLookup(p)
  \/ LoginAccount(p)
  \/ LoginCheckUsername(p)
  \/ LoginCheckEmail(p)
  \/ \E k \in Keys : LoginPut(p, k)
  \/ LoginConfig(p)

AdditiveStep(p) ==
  \/ RebuildAdditive(p)
  \/ AddList(p)
  \/ AddGet(p)
  \/ AddCheckUsername(p)
  \/ AddCheckEmail(p)
  \/ \E k \in Keys : AddPut(p, k)

DestructiveStep(p) ==
  \/ RebuildDestructive(p)
  \/ ClearList(p)
  \/ ClearDelete(p)
  \/ RdList(p)
  \/ RdGet(p)
  \/ \E k \in Keys : RdPut(p, k)

Step(p) == CreateStep(p) \/ LoginStep(p) \/ AdditiveStep(p) \/ DestructiveStep(p)

\* Requests that overlap freely.
Next == \E p \in Procs : Step(p)

Spec == Init /\ [][Next]_vars

\* Requests one after the other (a handler is entered only when none is
\* running), S3 calls failing at will.
NextSeq == Step("p1")

SpecSeq == Init /\ [][NextSeq]_vars

\* Sign-ups, logins and destructive rebuilds, one after the other.
NextLogin == CreateStep("p1") \/ LoginStep("p1") \/ DestructiveStep("p1")

SpecLogin == Init /\ [][NextLogin]_vars

\* Sign-ups and rebuilds of both kinds, one after the other.
NextRebuild == CreateStep("p1") \/ AdditiveStep("p1") \/ DestructiveStep("p1")

SpecRebuild == Init /\ [][NextRebuild]_vars

\* Sign-ups only, one after the other.
NextSignUp == CreateStep("p1")

SpecSignUp == Init /\ [][NextSignUp]_vars

\* Sign-ups that overlap.
NextRace == \E p \in Procs : CreateStep(p)

SpecRace == InitReliable /\ [][NextRace]_vars

\* Process p has entered no request yet, or is running one.
OneRequest(p) == pc[p] = "idle" => arg[p] = NoArg

\* One login or one additive pass, overlapped by one sign-up.
NextEnsure ==
  \/ OneRequest("p1") /\ (LoginStep("p1") \/ AdditiveStep("p1"))
  \/ OneRequest("p2") /\ CreateStep("p2")

SpecEnsure == InitPartial /\ [][NextEnsure]_vars

\* Rebuilds of both kinds, one after the other, over a malformed record.
NextMalformed == AdditiveStep("p1") \/ DestructiveStep("p1")

SpecMalformed == InitMalformed /\ [][NextMalformed]_vars

\* The requests that carry a token and the steps of their handlers.
TokenStep(p) ==
  \/ \E op \in TokenOps, kind \in TokenKinds, id \in {IdPool[1], IdPool[2]} :
       /\ kind = "good" \/ id = IdPool[1]
       /\ \/ TokenRequest(p, op, "json", TokenOf(kind, id), NoField, <<Undefined, Undefined>>)
          \/ op = "saveConfig" /\ TokenRequest(p, op, "json", TokenOf(kind, id), NewConfig,
                                               <<Undefined, Undefined>>)
          \/ op = "updateSetting" /\ \E st \in {x \in SettingInputs : x[1] = "theme"} :
               TokenRequest(p, op, "json", TokenOf(kind, id), NoField, st)
  \/ \E op \in TokenOps : TokenRequest(p, op, "unparsable", NoToken, NoField, <<Undefined, Undefined>>)
  \/ Authorize(p)
  \/ GetAccountRead(p)
  \/ GetConfigRead(p)
  \/ SaveConfigPut(p)
  \/ UpdateSettingRead(p)
  \/ UpdateSettingPut(p)

\* Requests that carry a token, one after the other, on the bucket one sign-up
\* left, S3 calls failing at will.
NextToken == TokenStep("p1")

SpecToken == InitSignedUpFaulty /\ [][NextToken]_vars

\* Requests of every kind one after the other; at most one S3 call fails, and
\* only during the first request.
NextOneFault == Step("p1") /\ (faults' = faults \/ (faults = 0 /\ ops = 1))

SpecOneFault == Init /\ [][NextOneFault]_vars

\* After one sign-up on a bucket whose calls never fail: one more sign-up,
\* overlapped by one login or one rebuild of either kind.
NextOverlap ==
  \/ OneRequest("p1") /\ CreateStep("p1")
  \/ OneRequest("p2") /\ (LoginStep("p2") \/ AdditiveStep("p2") \/ DestructiveStep("p2"))

SpecOverlap == InitSignedUp /\ [][NextOverlap]_vars

\* One login overlapped by one destructive rebuild.
NextWindow ==
  \/ OneRequest("p1") /\ LoginStep("p1")
  \/ OneRequest("p2") /\ DestructiveStep("p2")

SpecWindow == InitSignedUp /\ [][NextWindow]_vars

\* The calls of a pass that is under way: once the handler is invoked, each of
\* its awaited calls settles and the handler goes on.
PassStep(p) ==
  \/ AddList(p) \/ AddGet(p) \/ AddCheckUsername(p) \/ AddCheckEmail(p)
  \/ \E k \in Keys : AddPut(p, k)
  \/ ClearList(p) \/ ClearDelete(p) \/ RdList(p) \/ RdGet(p)
  \/ \E k \in Keys : RdPut(p, k)

\* One pass over the bucket a sign-up left without one of its index entries;
\* every call of the pass settles.
NextPass == OneRequest("p1") /\ (AdditiveStep("p1") \/ DestructiveStep("p1"))

SpecPassFair == InitPartial /\ [][NextPass]_vars /\ WF_vars(PassStep("p1"))

\* An update-setting request of the signed-up user and the steps of its handler.
SettingStep(p) ==
  \/ \E st \in SettingInputs :
       TokenRequest(p, "updateSetting", "json", TokenOf("good", IdPool[1]), NoField, st)
  \/ Authorize(p)
  \/ UpdateSettingRead(p)
  \/ UpdateSettingPut(p)

\* Two update-setting requests of one user that overlap freely.
NextSettings == \E p \in Procs : OneRequest(p) /\ SettingStep(p)

SpecSettings == InitSignedUpFaulty /\ [][NextSettings]_vars

\* Rebuilds, one after the other, of the bucket of the user named "account".
NextFilter == AdditiveStep("p1") \/ DestructiveStep("p1")
SpecFilter == InitAccountName /\ [][NextFilter]_vars

\* Sign-ups handled by handleCreateAccount of src/index.mjs, one after the other.
NextSignUpNoIndex ==
  \/ \E ue \in SignUps, pw \in NewPasswords : CreateAccountNoIndex("p1", ue[1], ue[2], pw)
  \/ CreateNoIndexDraw("p1")
  \/ \E k \in Keys : CreateNoIndexWrite("p1", k)

SpecSignUpNoIndex == Init /\ [][NextSignUpNoIndex]_vars

====
